---- MODULE Spec2Model ----
(***************************************************************************)
(* Countdown engine of script.js: the fixed target instant, the recurring  *)
(* one-second timer, the immediate first call, and updateCountdown, which  *)
(* computes the remaining days/hours/minutes/seconds, writes them into the *)
(* four display slots and, on a negative distance, cancels the timer and   *)
(* replaces the countdown-boxes region.                                    *)
(*                                                                         *)
(* script.js holds two revisions of the same script (lines 1-59 and        *)
(* 60-109); they differ in the target date literal and the audio wiring    *)
(* only.  The line numbers below refer to the later revision.              *)
(*                                                                         *)
(* Instants are milliseconds counted from a model epoch: the code only     *)
(* ever uses countdownDate - now, so the epoch is placed 1,000,000,000 ms  *)
(* before the target to keep every instant inside TLC's integers.          *)
(* Strings are sequences of one-character strings.                        *)
(***************************************************************************)
EXTENDS Integers, Sequences

VARIABLES pc, clock, countdownTimer, countdownBoxes, slots, replacements,
          history, ticks, units

vars == <<pc, clock, countdownTimer, countdownBoxes, slots, replacements,
          history, ticks, units>>

(***************************************************************************)
(* Bounds of the exploration.                                              *)
(***************************************************************************)
\* Calls of updateCountdown explored with every elapsed time of FineElapsed;
\* later calls are one CoarseElapsed apart.
MaxTicks == 3

\* Largest days value handed to the renderer in SpecFmt.
MaxDays == 120

\* Days after the target up to which the clock is followed.
MaxDaysPast == 2

(***************************************************************************)
(* Program constants.                                                      *)
(***************************************************************************)
\* new Date("2024-12-01T23:59:59").getTime(), in model-epoch milliseconds.
countdownDate == 1000000000

\* 1000 * 60 * 60 * 24, 1000 * 60 * 60 and 1000 * 60 as written in the code.
MsPerDay == 1000 * 60 * 60 * 24

MsPerHour == 1000 * 60 * 60

MsPerMinute == 1000 * 60

\* Latest instant a call samples.
MaxNow == countdownDate + MaxDaysPast * MsPerDay

\* Instants at which the page is loaded (the instant of the immediate call).
InitNows ==
  { countdownDate - 1000000000,
    countdownDate - 90061001,
    countdownDate - 2000,
    countdownDate,
    countdownDate + 1,
    countdownDate + 10 * MsPerHour }

\* Time between two timer callbacks: about a second, late, early, or after
\* the system clock was set back.
ForwardElapsed == {1, 999, 1000, 1001, 60000}

BackwardElapsed == {-1000}

CoarseElapsed == {MsPerDay}

SlotNames == {"days", "hours", "minutes", "seconds"}

\* textContent of a slot the script has not written yet.
Unwritten == <<>>

(***************************************************************************)
(* Arithmetic and formatting as JavaScript does them.                      *)
(***************************************************************************)
\* a % b of JavaScript: the remainder takes the sign of the dividend.
JsRem(a, b) == IF a >= 0 THEN a % b ELSE -((-a) % b)

\* Math.floor(a / b) for b > 0: the real quotient rounded towards -infinity.
MathFloorDiv(a, b) == a \div b

DigitChar(d) == <<"0", "1", "2", "3", "4", "5", "6", "7", "8", "9">>[d + 1]

RECURSIVE Digits(_)
Digits(n) ==
  IF n < 10 THEN <<DigitChar(n)>>
  ELSE Append(Digits(n \div 10), DigitChar(n % 10))

\* Number.prototype.toString() of an integer.
ToString(n) == IF n < 0 THEN <<"-">> \o Digits(-n) ELSE Digits(n)

\* The first n characters of padString repeated.
RECURSIVE Filler(_, _)
Filler(padString, n) ==
  IF n <= 0 THEN <<>>
  ELSE IF n <= Len(padString) THEN SubSeq(padString, 1, n)
  ELSE padString \o Filler(padString, n - Len(padString))

PadEnd(str, targetLength, padString) ==
  IF Len(str) >= targetLength \/ Len(padString) = 0 THEN str
  ELSE str \o Filler(padString, targetLength - Len(str))

\* String.prototype.padStart(targetLength, padString).
PadStart(str, targetLength, padString) ==
  IF Len(str) >= targetLength \/ Len(padString) = 0 THEN str
  ELSE Filler(padString, targetLength - Len(str)) \o str

\* value.toString().padStart(2, "0")
Render(value) == PadStart(ToString(value), 2, <<"0">>)

(***************************************************************************)
(* The computation of updateCountdown (lines 70-78).                       *)
(***************************************************************************)
DistanceSwapped(target, now) == now - target

Distance(target, now) == target - now

DaysRounded(distance) == MathFloorDiv(2 * distance + MsPerDay, 2 * MsPerDay)

Days(distance) == MathFloorDiv(distance, MsPerDay)

HoursNoModulus(distance) == MathFloorDiv(distance, MsPerHour)

Hours(distance) == MathFloorDiv(JsRem(distance, MsPerDay), MsPerHour)

Minutes(distance) == MathFloorDiv(JsRem(distance, MsPerHour), MsPerMinute)

SecondsOfHour(distance) == MathFloorDiv(JsRem(distance, MsPerHour), 1000)

Seconds(distance) == MathFloorDiv(JsRem(distance, MsPerMinute), 1000)

ExpiredAtZero(distance) == distance <= 0

\* The test of the if statement, line 93.
Expired(distance) == distance < 0

ClearIntervalForgotten(timer) == timer

\* clearInterval(countdownTimer), line 94.
ClearInterval(timer) == "cleared"

\* The four textContent assignments, lines 80-91.
RenderSlots(days, hours, minutes, seconds) ==
  [days |-> Render(days), hours |-> Render(hours),
   minutes |-> Render(minutes), seconds |-> Render(seconds)]

\* The locals of one call of updateCountdown.
Call(now) ==
  LET distance == Distance(countdownDate, now)
  IN [now |-> now, distance |-> distance,
      days |-> Days(distance), hours |-> Hours(distance),
      minutes |-> Minutes(distance), seconds |-> Seconds(distance),
      expired |-> Expired(distance)]

\* The last two calls are kept for the properties.
Remember(h, call) ==
  IF Len(h) < 2 THEN Append(h, call) ELSE <<h[2], call>>

\* function updateCountdown(), lines 69-98, with now the sampled instant.
UpdateCountdown(now) ==
  LET call == Call(now)
  IN /\ slots' = RenderSlots(call.days, call.hours, call.minutes, call.seconds)
     /\ IF call.expired
          THEN /\ countdownTimer' = ClearInterval(countdownTimer)
               /\ countdownBoxes' = "message"
               /\ replacements' = replacements + 1
          ELSE UNCHANGED <<countdownTimer, countdownBoxes, replacements>>
     /\ history' = Remember(history, call)
     /\ ticks' = IF ticks < MaxTicks THEN ticks + 1 ELSE ticks

(***************************************************************************)
(* The script and the event loop.                                          *)
(***************************************************************************)
NoUnits == [days |-> 0, hours |-> 0, minutes |-> 0, seconds |-> 0]

Init ==
  /\ pc = "script"
  /\ clock \in InitNows
  /\ countdownTimer = "unset"
  /\ countdownBoxes = "boxes"
  /\ slots = [n \in SlotNames |-> Unwritten]
  /\ replacements = 0
  /\ history = <<>>
  /\ ticks = 0
  /\ units = NoUnits

\* const countdownTimer = setInterval(updateCountdown, 1000), line 100.
SetInterval ==
  /\ pc = "script"
  /\ countdownTimer' = "active"
  /\ pc' = "initial"
  /\ UNCHANGED <<clock, countdownBoxes, slots, replacements, history, ticks,
                 units>>

\* updateCountdown(), line 101: the immediate first call.
InitialCall ==
  /\ pc = "initial"
  /\ UpdateCountdown(clock)
  /\ pc' = "loop"
  /\ UNCHANGED <<clock, units>>

\* Elapsed times explored for the next timer callback.
ElapsedChoices(all) ==
  IF ticks < MaxTicks THEN all ELSE CoarseElapsed

\* The timer fires after `elapsed` milliseconds and runs updateCountdown.
IntervalTick(elapsed) ==
  /\ pc = "loop"
  /\ countdownTimer = "active"
  /\ clock + elapsed <= MaxNow
  /\ clock' = clock + elapsed
  /\ UpdateCountdown(clock + elapsed)
  /\ UNCHANGED <<pc, units>>

Tick == \E elapsed \in ElapsedChoices(ForwardElapsed \cup BackwardElapsed) :
          IntervalTick(elapsed)

TickForward == \E elapsed \in ElapsedChoices(ForwardElapsed) :
                 IntervalTick(elapsed)

Next == SetInterval \/ InitialCall \/ Tick

Spec == Init /\ [][Next]_vars

\* The clock only advances and the event loop keeps running the script and
\* the timer callbacks that are due.
NextForward == SetInterval \/ InitialCall \/ TickForward

LiveSpec == Init /\ [][NextForward]_vars /\ WF_vars(NextForward)

(***************************************************************************)
(* The rendering of lines 80-91 on its own, over the unit values of a      *)
(* running countdown, days beyond the distances the instants above can     *)
(* produce included.                                                       *)
(***************************************************************************)
UnitInputs ==
  [days : 0 .. MaxDays, hours : {0, 9, 10, 23},
   minutes : {0, 9, 10, 59}, seconds : {0, 7, 59}]

FmtInit ==
  /\ pc = "render"
  /\ clock = countdownDate
  /\ countdownTimer = "unset"
  /\ countdownBoxes = "boxes"
  /\ slots = [n \in SlotNames |-> Unwritten]
  /\ replacements = 0
  /\ history = <<>>
  /\ ticks = 0
  /\ units \in UnitInputs

RenderUnits ==
  /\ pc = "render"
  /\ slots' = RenderSlots(units.days, units.hours, units.minutes, units.seconds)
  /\ pc' = "rendered"
  /\ UNCHANGED <<clock, countdownTimer, countdownBoxes, replacements, history,
                 ticks, units>>

\* The countdown together with the rendering on its own.
FmtNext == RenderUnits \/ Next

SpecFmt == (FmtInit \/ Init) /\ [][FmtNext]_vars

(***************************************************************************)
(* Vocabulary of the properties.                                           *)
(***************************************************************************)
Ticked == Len(history) >= 1

Last == history[Len(history)]

TwoTicks == Len(history) >= 2

Previous == history[Len(history) - 1]

Running == pc = "loop" /\ countdownBoxes = "boxes"

Finished == countdownBoxes = "message"

\* This step is a call of updateCountdown.
TickStep == history' # history

TypeOK ==
  /\ pc \in {"script", "initial", "loop", "render", "rendered"}
  /\ countdownTimer \in {"unset", "active", "cleared"}
  /\ countdownBoxes \in {"boxes", "message"}
  /\ ticks \in 0 .. MaxTicks
  /\ Len(history) <= 2

(***************************************************************************)
(* Properties.                                                             *)
(***************************************************************************)
\* C1: a call that samples now < target reports expired = false and four
\* non-negative units, with hours in 0..23, minutes in 0..59, seconds in 0..59.
C1_BeforeTargetInRange ==
  (Ticked /\ Last.now < countdownDate) =>
     /\ ~Last.expired
     /\ Last.days >= 0
     /\ Last.hours \in 0 .. 23
     /\ Last.minutes \in 0 .. 59
     /\ Last.seconds \in 0 .. 59

C1_Witness ==
  /\ Ticked
  /\ Last.now < countdownDate
  /\ Last.days >= 10
  /\ Last.hours > 0
  /\ Last.minutes > 0
  /\ Last.seconds > 0

\* C2 as stated: a call that samples now >= target, now == target included,
\* reports expired = true and takes the expiry branch.
C2_ExpiredFromTargetOn ==
  (Ticked /\ Last.now >= countdownDate) => (Last.expired /\ Finished)

\* C2 as amended: a call that samples now > target reports expired = true and
\* takes the expiry branch; a call that samples now == target reports
\* expired = false.
C2_ExpiredAfterTarget ==
  /\ (Ticked /\ Last.now > countdownDate) =>
        (Last.expired /\ Finished /\ countdownTimer = "cleared")
  /\ (Ticked /\ Last.now = countdownDate) => ~Last.expired

C2_Witness ==
  /\ Ticked
  /\ Last.now > countdownDate
  /\ Last.expired
  /\ Finished

\* C3: a call at now == target computes distance 0 and four zero units, is
\* not expired, writes "00" into all four slots, leaves the timer active and
\* the region in place; the region is replaced only on a negative distance.
C3_BoundaryStaysRunning ==
  /\ (Ticked /\ Last.now = countdownDate) =>
        /\ Last.distance = 0
        /\ Last.days = 0 /\ Last.hours = 0
        /\ Last.minutes = 0 /\ Last.seconds = 0
        /\ ~Last.expired
        /\ \A n \in SlotNames : slots[n] = <<"0", "0">>
        /\ countdownTimer = "active"
        /\ countdownBoxes = "boxes"
        /\ replacements = 0
  /\ Finished => (Ticked /\ Last.distance < 0)

C3_Witness ==
  /\ TwoTicks
  /\ Last.now = countdownDate
  /\ Previous.now < countdownDate
  /\ slots.seconds = <<"0", "0">>
  /\ Running

\* C4: the call that observes distance < 0 cancels the timer and replaces the
\* region; the region is replaced once, no call runs after that one and the
\* region never goes back to the boxes.
C4_OneTimeIrreversible ==
  [][ /\ (TickStep /\ Last'.distance < 0) =>
            /\ countdownTimer' = "cleared"
            /\ countdownBoxes' = "message"
            /\ replacements' = 1
      /\ Finished => (~TickStep /\ Finished')
      /\ replacements' = (IF Finished' THEN 1 ELSE 0) ]_vars

C4_Witness ==
  /\ Finished
  /\ countdownTimer = "cleared"
  /\ replacements = 1
  /\ TwoTicks
  /\ ~Previous.expired

\* C5: a call whose distance is negative leaves the four slots unchanged and
\* only cancels the timer and replaces the region; the slots are written only
\* by calls that are not expired.
C5_ExpiredTickLeavesSlots ==
  [][ /\ (TickStep /\ Last'.expired) =>
            /\ slots' = slots
            /\ countdownTimer' = "cleared"
            /\ countdownBoxes' = "message"
      /\ (slots' # slots) => (TickStep /\ ~Last'.expired) ]_vars

\* C6: after the first call every slot shows the remaining duration of the
\* most recent call floored to whole units, and every shown value is
\* non-negative and in range (hours 0..23, minutes 0..59, seconds 0..59).
C6_SlotsFlooredNonNegative ==
  Ticked =>
     LET d == Last.distance
     IN /\ slots.days = Render(d \div MsPerDay)
        /\ slots.hours = Render((d \div MsPerHour) % 24)
        /\ slots.minutes = Render((d \div MsPerMinute) % 60)
        /\ slots.seconds = Render((d \div 1000) % 60)
        /\ slots = RenderSlots(Last.days, Last.hours, Last.minutes, Last.seconds)
        /\ Last.days >= 0
        /\ Last.hours \in 0 .. 23
        /\ Last.minutes \in 0 .. 59
        /\ Last.seconds \in 0 .. 59
        /\ \A n \in SlotNames : slots[n][1] # "-"

\* C7: when two consecutive calls both have distance >= 0 and sample instants
\* exactly 1000 ms apart, the seconds slot after the second shows the seconds
\* of the first minus 1 modulo 60, and the whole minutes drop by one exactly
\* when the seconds wrap from 0 to 59.
C7_SecondsStepDown ==
  (/\ TwoTicks
   /\ Previous.distance >= 0
   /\ Last.distance >= 0
   /\ Last.now - Previous.now = 1000) =>
     LET WholeMinutes(c) == (c.days * 24 + c.hours) * 60 + c.minutes
     IN /\ slots.seconds = Render((Previous.seconds + 59) % 60)
        /\ Last.seconds = (Previous.seconds + 59) % 60
        /\ WholeMinutes(Last) =
             WholeMinutes(Previous) - (IF Previous.seconds = 0 THEN 1 ELSE 0)

C7_Witness ==
  /\ TwoTicks
  /\ Previous.distance >= 0
  /\ Last.distance >= 0
  /\ Last.now - Previous.now = 1000
  /\ Previous.seconds = 0
  /\ slots.seconds = <<"5", "9">>
  /\ Last.minutes = 0
  /\ Previous.minutes = 1

\* C8 as stated: every string written into a slot, the days slot included, is
\* exactly two characters long.
C8_ExactlyTwoCharacters ==
  \A n \in SlotNames : slots[n] # Unwritten => Len(slots[n]) = 2

\* C8 as amended: every string written into a slot is at least two characters
\* long: a value in 0..9 is rendered with one leading zero, a value >= 10 as
\* its plain decimal digits, and the string is exactly two characters long
\* only for a value in -9..99 (the days slot takes three from 100 days on).
C8_AtLeastTwoCharacters ==
  LET Shape(str, v) ==
        /\ Len(str) >= 2
        /\ v \in 0 .. 9 => str = <<"0", DigitChar(v)>>
        /\ v >= 10 => str = Digits(v)
        /\ (Len(str) = 2) <=> (v \in (-9) .. 99)
  IN /\ pc = "rendered" => \A n \in SlotNames : Shape(slots[n], units[n])
     /\ Ticked => \A n \in SlotNames : Shape(slots[n], Last[n])

C8_Witness ==
  /\ pc = "rendered"
  /\ units.days >= 100
  /\ Len(slots.days) = 3
  /\ units.seconds = 7
  /\ slots.seconds = <<"0", "7">>

\* C9: for a distance d >= 0 the four units are the mixed-radix decomposition
\* of d truncated to whole seconds: their weighted sum S satisfies
\* S <= d < S + 1000; d = 90,061,001 gives 1 day, 1 hour, 1 minute, 1 second.
C9_MixedRadixDecomposition ==
  (Ticked /\ Last.distance >= 0) =>
     LET sum == Last.days * MsPerDay + Last.hours * MsPerHour
                + Last.minutes * MsPerMinute + Last.seconds * 1000
     IN /\ sum <= Last.distance
        /\ Last.distance < sum + 1000
        /\ Last.distance = 90061001 =>
              /\ Last.days = 1 /\ Last.hours = 1
              /\ Last.minutes = 1 /\ Last.seconds = 1

C9_Witness ==
  /\ Ticked
  /\ Last.distance = 90061001
  /\ Last.days = 1
  /\ Last.seconds = 1

\* C10: while the countdown is running the timer callback stays enabled, and
\* with a clock that only advances and callbacks that keep firing, every
\* execution reaches Finished (timer cancelled, region replaced); a clock past
\* the target leads to Finished.
C10_EventuallyFinished ==
  /\ [](Running => ENABLED TickForward)
  /\ <>(Finished /\ countdownTimer = "cleared")
  /\ (clock > countdownDate) ~> (Finished /\ countdownTimer = "cleared")

C10_Witness ==
  /\ Finished
  /\ countdownTimer = "cleared"
  /\ TwoTicks
  /\ Last.now - Previous.now = MsPerDay
  /\ Previous.distance >= 0

====
